---- MODULE Spec2Model ----
(***************************************************************************)
(* Caesar cipher: the encoder (src/Cipher/go.go) and the cipher breaker    *)
(* (src/Decipher/go.go).                                                   *)
(*                                                                         *)
(* A text is a Go string holding valid UTF-8, modelled as the sequence of  *)
(* its code points (what `for _, char := range s` yields and what          *)
(* WriteRune writes back).  Its byte length, which len(s) returns, is the  *)
(* sum of the UTF-8 widths of its code points.                             *)
(*                                                                         *)
(* Scores are float64 in the source.  Every score is a count of words plus *)
(* 0.0 or 2.0, so it is an integer-valued float and is modelled by that    *)
(* integer; the sentinel -1.0 is -1.  The one quotient the source computes *)
(* (the space ratio) is kept as numerator and denominator, with NaN for    *)
(* the IEEE result of 0.0/0.0.                                             *)
(***************************************************************************)
EXTENDS Integers, Sequences, FiniteSets

VARIABLES
    pc,              \* position of the run: "start", "encoded", "decoded", "cracked" (the
                     \* encoder and what is done with its output); "read", "brute", "freq",
                     \* "again" (Decipher main)
    plaintext,       \* Cipher main: the text read from the terminal
    shift,           \* Cipher main: the shift factor read from the terminal
    ciphertext,      \* applyCipher's result / the text Decipher main reads
    recovered,       \* decipherWithShift(ciphertext, shift)
    bf,              \* breakCipherBruteForce at its return: bestPlaintext, bestShift, bestScore
    fa,              \* breakCipherFrequencyAnalysis at its return, likewise
    faPrev,          \* fa of the run of breakCipherFrequencyAnalysis before the last
    freqOrder,       \* the string getFrequencyOrder returned in the last run
    potentialShifts  \* the shifts the last run of breakCipherFrequencyAnalysis tried, in order

vars == <<pc, plaintext, shift, ciphertext, recovered, bf, fa, faPrev,
          freqOrder, potentialShifts>>

-----------------------------------------------------------------------------
(* Bounds of the checked instances.                                        *)

MaxCipherLen == 2
MaxShift == 30
MaxLen == 6
MaxShortLen == 3
MaxRecoverLen == 4

-----------------------------------------------------------------------------
(* Go primitives used by the source.                                       *)

\* Go's % truncates toward zero: the result has the sign of the dividend.
GoRem(a, b) == IF a >= 0 THEN a % b ELSE -((-a) % b)

\* len(s): the number of bytes of s in UTF-8.  A code point takes one byte,
\* and one more from each of U+0080, U+0800 and U+10000 on.
ByteLen(s) ==
    Len(s) + Cardinality({i \in DOMAIN s : s[i] >= 128})
           + Cardinality({i \in DOMAIN s : s[i] >= 2048})
           + Cardinality({i \in DOMAIN s : s[i] >= 65536})

\* unicode.CaseRanges as unicode.ToUpper reads it (Unicode 15.0, the table of
\* Go 1.21 and later): <<lo, hi, stride, delta>> says that the code points
\* lo, lo + stride, ... up to hi have the upper case r + delta.  A code point
\* in no range is its own upper case.
UpperCaseRanges ==
    {
      <<181, 181, 1, 743>>, <<224, 246, 1, -32>>, <<248, 254, 1, -32>>,
      <<255, 255, 1, 121>>, <<257, 303, 2, -1>>, <<305, 305, 1, -232>>,
      <<307, 311, 2, -1>>, <<314, 328, 2, -1>>, <<331, 375, 2, -1>>,
      <<378, 382, 2, -1>>, <<383, 383, 1, -300>>, <<384, 384, 1, 195>>,
      <<387, 389, 2, -1>>, <<392, 392, 1, -1>>, <<396, 396, 1, -1>>,
      <<402, 402, 1, -1>>, <<405, 405, 1, 97>>, <<409, 409, 1, -1>>,
      <<410, 410, 1, 163>>, <<414, 414, 1, 130>>, <<417, 421, 2, -1>>,
      <<424, 424, 1, -1>>, <<429, 429, 1, -1>>, <<432, 432, 1, -1>>,
      <<436, 438, 2, -1>>, <<441, 441, 1, -1>>, <<445, 445, 1, -1>>,
      <<447, 447, 1, 56>>, <<453, 453, 1, -1>>, <<454, 454, 1, -2>>,
      <<456, 456, 1, -1>>, <<457, 457, 1, -2>>, <<459, 459, 1, -1>>,
      <<460, 460, 1, -2>>, <<462, 476, 2, -1>>, <<477, 477, 1, -79>>,
      <<479, 495, 2, -1>>, <<498, 498, 1, -1>>, <<499, 499, 1, -2>>,
      <<501, 501, 1, -1>>, <<505, 543, 2, -1>>, <<547, 563, 2, -1>>,
      <<572, 572, 1, -1>>, <<575, 576, 1, 10815>>, <<578, 578, 1, -1>>,
      <<583, 591, 2, -1>>, <<592, 592, 1, 10783>>, <<593, 593, 1, 10780>>,
      <<594, 594, 1, 10782>>, <<595, 595, 1, -210>>, <<596, 596, 1, -206>>,
      <<598, 599, 1, -205>>, <<601, 601, 1, -202>>, <<603, 603, 1, -203>>,
      <<604, 604, 1, 42319>>, <<608, 608, 1, -205>>, <<609, 609, 1, 42315>>,
      <<611, 611, 1, -207>>, <<613, 613, 1, 42280>>, <<614, 614, 1, 42308>>,
      <<616, 616, 1, -209>>, <<617, 617, 1, -211>>, <<618, 618, 1, 42308>>,
      <<619, 619, 1, 10743>>, <<620, 620, 1, 42305>>, <<623, 623, 1, -211>>,
      <<625, 625, 1, 10749>>, <<626, 626, 1, -213>>, <<629, 629, 1, -214>>,
      <<637, 637, 1, 10727>>, <<640, 640, 1, -218>>, <<642, 642, 1, 42307>>,
      <<643, 643, 1, -218>>, <<647, 647, 1, 42282>>, <<648, 648, 1, -218>>,
      <<649, 649, 1, -69>>, <<650, 651, 1, -217>>, <<652, 652, 1, -71>>,
      <<658, 658, 1, -219>>, <<669, 669, 1, 42261>>, <<670, 670, 1, 42258>>,
      <<837, 837, 1, 84>>, <<881, 883, 2, -1>>, <<887, 887, 1, -1>>,
      <<891, 893, 1, 130>>, <<940, 940, 1, -38>>, <<941, 943, 1, -37>>,
      <<945, 961, 1, -32>>, <<962, 962, 1, -31>>, <<963, 971, 1, -32>>,
      <<972, 972, 1, -64>>, <<973, 974, 1, -63>>, <<976, 976, 1, -62>>,
      <<977, 977, 1, -57>>, <<981, 981, 1, -47>>, <<982, 982, 1, -54>>,
      <<983, 983, 1, -8>>, <<985, 1007, 2, -1>>, <<1008, 1008, 1, -86>>,
      <<1009, 1009, 1, -80>>, <<1010, 1010, 1, 7>>, <<1011, 1011, 1, -116>>,
      <<1013, 1013, 1, -96>>, <<1016, 1016, 1, -1>>, <<1019, 1019, 1, -1>>,
      <<1072, 1103, 1, -32>>, <<1104, 1119, 1, -80>>, <<1121, 1153, 2, -1>>,
      <<1163, 1215, 2, -1>>, <<1218, 1230, 2, -1>>, <<1231, 1231, 1, -15>>,
      <<1233, 1327, 2, -1>>, <<1377, 1414, 1, -48>>, <<4304, 4346, 1, 3008>>,
      <<4349, 4351, 1, 3008>>, <<5112, 5117, 1, -8>>, <<7296, 7296, 1, -6254>>,
      <<7297, 7297, 1, -6253>>, <<7298, 7298, 1, -6244>>, <<7299, 7300, 1, -6242>>,
      <<7301, 7301, 1, -6243>>, <<7302, 7302, 1, -6236>>, <<7303, 7303, 1, -6181>>,
      <<7304, 7304, 1, 35266>>, <<7545, 7545, 1, 35332>>, <<7549, 7549, 1, 3814>>,
      <<7566, 7566, 1, 35384>>, <<7681, 7829, 2, -1>>, <<7835, 7835, 1, -59>>,
      <<7841, 7935, 2, -1>>, <<7936, 7943, 1, 8>>, <<7952, 7957, 1, 8>>,
      <<7968, 7975, 1, 8>>, <<7984, 7991, 1, 8>>, <<8000, 8005, 1, 8>>,
      <<8017, 8023, 2, 8>>, <<8032, 8039, 1, 8>>, <<8048, 8049, 1, 74>>,
      <<8050, 8053, 1, 86>>, <<8054, 8055, 1, 100>>, <<8056, 8057, 1, 128>>,
      <<8058, 8059, 1, 112>>, <<8060, 8061, 1, 126>>, <<8064, 8071, 1, 8>>,
      <<8080, 8087, 1, 8>>, <<8096, 8103, 1, 8>>, <<8112, 8113, 1, 8>>,
      <<8115, 8115, 1, 9>>, <<8126, 8126, 1, -7205>>, <<8131, 8131, 1, 9>>,
      <<8144, 8145, 1, 8>>, <<8160, 8161, 1, 8>>, <<8165, 8165, 1, 7>>,
      <<8179, 8179, 1, 9>>, <<8526, 8526, 1, -28>>, <<8560, 8575, 1, -16>>,
      <<8580, 8580, 1, -1>>, <<9424, 9449, 1, -26>>, <<11312, 11359, 1, -48>>,
      <<11361, 11361, 1, -1>>, <<11365, 11365, 1, -10795>>, <<11366, 11366, 1, -10792>>,
      <<11368, 11372, 2, -1>>, <<11379, 11379, 1, -1>>, <<11382, 11382, 1, -1>>,
      <<11393, 11491, 2, -1>>, <<11500, 11502, 2, -1>>, <<11507, 11507, 1, -1>>,
      <<11520, 11557, 1, -7264>>, <<11559, 11559, 1, -7264>>, <<11565, 11565, 1, -7264>>,
      <<42561, 42605, 2, -1>>, <<42625, 42651, 2, -1>>, <<42787, 42799, 2, -1>>,
      <<42803, 42863, 2, -1>>, <<42874, 42876, 2, -1>>, <<42879, 42887, 2, -1>>,
      <<42892, 42892, 1, -1>>, <<42897, 42899, 2, -1>>, <<42900, 42900, 1, 48>>,
      <<42903, 42921, 2, -1>>, <<42933, 42947, 2, -1>>, <<42952, 42954, 2, -1>>,
      <<42961, 42961, 1, -1>>, <<42967, 42969, 2, -1>>, <<42998, 42998, 1, -1>>,
      <<43859, 43859, 1, -928>>, <<43888, 43967, 1, -38864>>, <<65345, 65370, 1, -32>>,
      <<66600, 66639, 1, -40>>, <<66776, 66811, 1, -40>>, <<66967, 66977, 1, -39>>,
      <<66979, 66993, 1, -39>>, <<66995, 67001, 1, -39>>, <<67003, 67004, 1, -39>>,
      <<68800, 68850, 1, -64>>, <<71872, 71903, 1, -32>>, <<93792, 93823, 1, -32>>,
      <<125218, 125251, 1, -34>>
    }

\* unicode.ToUpper: the ASCII branch (r <= MaxASCII), else the table.
ToUpperRune(r) ==
    IF r < 128 THEN (IF r >= 97 /\ r <= 122 THEN r - 32 ELSE r)
    ELSE LET hit == {e \in UpperCaseRanges : e[1] <= r /\ r <= e[2] /\ (r - e[1]) % e[3] = 0}
         IN  IF hit = {} THEN r ELSE r + (CHOOSE e \in hit : TRUE)[4]

\* strings.ToUpper: unicode.ToUpper mapped over the runes of s.
RECURSIVE ToUpperFrom(_, _)
ToUpperFrom(s, i) ==
    IF i > Len(s) THEN <<>> ELSE <<ToUpperRune(s[i])>> \o ToUpperFrom(s, i + 1)

ToUpper(s) == ToUpperFrom(s, 1)

\* unicode.IsSpace
IsSpace(r) ==
    \/ r >= 9 /\ r <= 13
    \/ r \in {32, 133, 160, 5760, 8232, 8233, 8239, 8287, 12288}
    \/ r >= 8192 /\ r <= 8202

\* strings.Fields: the maximal runs of non-space code points, in order.
RECURSIVE FieldsFrom(_, _, _)
FieldsFrom(s, i, word) ==
    IF i > Len(s) THEN (IF word = <<>> THEN <<>> ELSE <<word>>)
    ELSE IF IsSpace(s[i])
         THEN (IF word = <<>> THEN <<>> ELSE <<word>>) \o FieldsFrom(s, i + 1, <<>>)
         ELSE FieldsFrom(s, i + 1, Append(word, s[i]))

Fields(s) == FieldsFrom(s, 1, <<>>)

\* strings.Count(s, " ")
Count(s, r) == Cardinality({i \in DOMAIN s : s[i] = r})

IsUpperLetter(r) == r >= 65 /\ r <= 90
IsLowerLetter(r) == r >= 97 /\ r <= 122

-----------------------------------------------------------------------------
(* src/Cipher/go.go                                                        *)

\* Lines 16-19: shift = shift % 26; if shift < 0 { shift += 26 }.
NormalizeShift(k) == IF GoRem(k, 26) < 0 THEN GoRem(k, 26) + 26 ELSE GoRem(k, 26)

\* Lines 23-34, one iteration of the loop: the rune written for char, with
\* the shift n already normalized.
ShiftRune(char, n) ==
    IF char >= 65 /\ char <= 90 THEN 65 + GoRem(char - 65 + n, 26)
    ELSE IF char >= 97 /\ char <= 122 THEN 97 + GoRem(char - 97 + n, 26)
    ELSE char

\* Lines 22-35 and Decipher lines 29-42: the loop over the runes of text from
\* position i on, each shifted rune written to the result.
RECURSIVE ShiftFrom(_, _, _)
ShiftFrom(text, n, i) ==
    IF i > Len(text) THEN <<>>
    ELSE <<ShiftRune(text[i], n)>> \o ShiftFrom(text, n, i + 1)

\* Mutant: the lowercase branch rebases on 'A'.
ShiftRuneUpperBase(char, n) ==
    IF char >= 65 /\ char <= 90 THEN 65 + GoRem(char - 65 + n, 26)
    ELSE IF char >= 97 /\ char <= 122 THEN 65 + GoRem(char - 97 + n, 26)
    ELSE char

RECURSIVE ShiftUpperBaseFrom(_, _, _)
ShiftUpperBaseFrom(text, n, i) ==
    IF i > Len(text) THEN <<>>
    ELSE <<ShiftRuneUpperBase(text[i], n)>> \o ShiftUpperBaseFrom(text, n, i + 1)

applyCipherUpperBase(text, k) == ShiftUpperBaseFrom(text, NormalizeShift(k), 1)

\* Mutant: the negative remainder is not corrected.
applyCipherNoCorrection(text, k) == ShiftFrom(text, GoRem(k, 26), 1)

\* Lines 11-38.
applyCipher(text, k) == ShiftFrom(text, NormalizeShift(k), 1)

-----------------------------------------------------------------------------
(* src/Decipher/go.go                                                      *)

\* Mutant: the shift is applied forward instead of reversed.
decipherWithShiftForward(text, k) == ShiftFrom(text, NormalizeShift(k), 1)

\* Lines 20-26 normalize the shift and reverse it (26 - shift, in 1..26);
\* lines 29-42 are the loop of applyCipher.
decipherWithShift(text, k) == ShiftFrom(text, 26 - NormalizeShift(k), 1)

\* strings.Map keeping the runes that satisfy keep (lines 103-108, 149-154).
MapKeep(s, keep(_)) == SelectSeq(s, keep)

\* Lines 103-108: the word cleaned of everything but 'A'..'Z'.
CleanWord(word) == MapKeep(word, IsUpperLetter)

IsLetter(r) == IsUpperLetter(r) \/ IsLowerLetter(r)

\* Lines 149-154: the ASCII letters of the ciphertext.
LettersOnly(text) == MapKeep(text, IsLetter)

\* Lines 91-96.
commonWords ==
    { <<84, 72, 69>>,      \* THE
      <<66, 69>>,          \* BE
      <<84, 79>>,          \* TO
      <<79, 70>>,          \* OF
      <<65, 78, 68>>,      \* AND
      <<65>>,              \* A
      <<73, 78>>,          \* IN
      <<84, 72, 65, 84>>,  \* THAT
      <<72, 65, 86, 69>>,  \* HAVE
      <<73>>,              \* I
      <<73, 84>>,          \* IT
      <<70, 79, 82>>,      \* FOR
      <<78, 79, 84>>,      \* NOT
      <<79, 78>>,          \* ON
      <<87, 73, 84, 72>>,  \* WITH
      <<72, 69>>,          \* HE
      <<65, 83>>,          \* AS
      <<89, 79, 85>>,      \* YOU
      <<68, 79>>,          \* DO
      <<65, 84>>           \* AT
    }

\* Lines 98-113: 1.0 for every field of the upper-cased text whose cleaned
\* form is a common word.
RECURSIVE WordHitsFrom(_, _)
WordHitsFrom(words, i) ==
    IF i > Len(words) THEN 0
    ELSE (IF CleanWord(words[i]) \in commonWords THEN 1 ELSE 0) + WordHitsFrom(words, i + 1)

WordHits(text) == WordHitsFrom(Fields(ToUpper(text)), 1)

\* Lines 116-117: float64(spaceCount) / float64(len(text)), kept as
\* numerator and denominator.  With len(text) = 0 the quotient is 0.0/0.0,
\* which float64 evaluates to NaN (no panic).
spaceRatio(text) ==
    LET length == ByteLen(text)
    IN  [nan |-> length = 0, num |-> Count(text, 32), den |-> length]

\* Line 117 evaluated with a zero divisor.
DividesByZero(text) == ByteLen(text) = 0

\* Lines 118-120: spaceRatio > 0.1 && spaceRatio < 0.25.  Every comparison
\* with NaN is false; otherwise num/den > 1/10 and num/den < 1/4.
SpaceBonus(text) ==
    LET ratio == spaceRatio(text)
    IN  IF ~ratio.nan /\ 10 * ratio.num > ratio.den /\ 4 * ratio.num < ratio.den
        THEN 2 ELSE 0

\* Lines 89-123.
scoreDecipheredText(text) == WordHits(text) + SpaceBonus(text)

\* Mutant: a candidate with an equal score replaces the running best.
BetterOrEqual(score, bestScore) == score >= bestScore

\* Lines 136 and 195: score > bestScore.
Better(score, bestScore) == score > bestScore

\* Lines 132-141 and 191-200: the candidates shifts[i..] tried in order, the
\* running best replaced on a strictly greater score.  zeroDiv records that
\* the scoring of some candidate so far divided by zero.
RECURSIVE TryShiftsFrom(_, _, _, _)
TryShiftsFrom(text, shifts, i, best) ==
    IF i > Len(shifts) THEN best
    ELSE LET candidate == decipherWithShift(text, shifts[i])
             score == scoreDecipheredText(candidate)
             divided == best.zeroDiv \/ DividesByZero(candidate)
         IN  TryShiftsFrom(text, shifts, i + 1,
                IF Better(score, best.score)
                THEN [score |-> score, shift |-> shifts[i], plaintext |-> candidate,
                      zeroDiv |-> divided]
                ELSE [best EXCEPT !.zeroDiv = divided])

\* Lines 127-129 and 165-167: bestScore := -1.0, bestShift := 0, bestPlaintext := "".
InitialBest == [score |-> -1, shift |-> 0, plaintext |-> <<>>, zeroDiv |-> FALSE]

\* Mutant: the loop stops one shift early (shift < 25).
AllShiftsBelow25 == [i \in 1..25 |-> i - 1]

\* Line 132: shift := 0; shift < 26; shift++.
AllShifts == [i \in 1..26 |-> i - 1]

\* Lines 126-144: the locals at the return, of which the pair
\* (plaintext, shift) is returned.
breakCipherBruteForce(text) == TryShiftsFrom(text, AllShifts, 1, InitialBest)

\* Lines 48-59: the map from each letter that occurs in the upper-cased text
\* to its number of occurrences; letters that do not occur are no keys.
calculateFrequencies(text) ==
    LET upper == ToUpper(text)
    IN  [letter \in {r \in 65..90 : Count(upper, r) > 0} |-> Count(upper, letter)]

\* Lines 75-83: the strings that list the given letters by descending count:
\* any letter of the greatest count first, then the others likewise.
RECURSIVE SortedOrders(_, _)
SortedOrders(freq, letters) ==
    IF letters = {} THEN {<<>>}
    ELSE UNION { { <<first>> \o rest : rest \in SortedOrders(freq, letters \ {first}) } :
                 first \in {l \in letters : \A m \in letters : freq[m] <= freq[l]} }

\* Lines 62-86: the keys of the map, sorted by descending count.  The pairs
\* are collected by ranging over a Go map, whose iteration order is not
\* specified and varies from run to run, and sort.Slice is not stable: the
\* order among letters of equal count is any order.  The set of the strings
\* one call may return.
getFrequencyOrder(freq) == SortedOrders(freq, DOMAIN freq)

\* Lines 173-181: the shift that maps the most common letter to 'E'.
PreferredShifts(order) ==
    IF Len(order) > 0
    THEN <<(IF GoRem(order[1] - 69, 26) < 0
            THEN GoRem(order[1] - 69, 26) + 26
            ELSE GoRem(order[1] - 69, 26))>>
    ELSE <<>>

\* Lines 184-188: every shift of k..25 appended unless it equals list[0].
RECURSIVE AddOtherShiftsFrom(_, _)
AddOtherShiftsFrom(list, k) ==
    IF k >= 26 THEN list
    ELSE AddOtherShiftsFrom(
            IF Len(list) = 0 \/ k # list[1] THEN Append(list, k) ELSE list, k + 1)

\* Mutant: the loop adds every shift, the preferred one a second time.
PotentialShiftsDuplicate(order) ==
    PreferredShifts(order) \o AllShifts

\* Mutant: the loop starts at 1, so shift 0 is tried only when preferred.
PotentialShiftsFromOne(order) ==
    AddOtherShiftsFrom(PreferredShifts(order), 1)

\* Lines 171-188.
PotentialShifts(order) == AddOtherShiftsFrom(PreferredShifts(order), 0)

\* Mutant: the threshold is one letter lower.
TooShortOff(text) == ByteLen(LettersOnly(text)) < 4

\* Line 156: len(lettersOnly) < 5 (the letters are ASCII, one byte each).
TooShort(text) == ByteLen(LettersOnly(text)) < 5

\* Lines 147-203, with order the string getFrequencyOrder returned.
breakCipherFrequencyAnalysis(text, order) ==
    IF TooShort(text)
    THEN breakCipherBruteForce(text)
    ELSE TryShiftsFrom(text, PotentialShifts(order), 1, InitialBest)

-----------------------------------------------------------------------------
(* Inputs.                                                                 *)

\* ' ', '@', 'A', 'Z', '[', '`', 'a', 'z', '{', U+00E9.
CipherAlphabet == {32, 64, 65, 90, 91, 96, 97, 122, 123, 233}

\* 'E', 'h', ' ': the letters of HE, whose rotations hold A and I.
LetterAlphabet == {69, 104, 32}

\* 'E', 'h', ' ', '!', U+00A0 (a space for strings.Fields, two bytes wide,
\* and not the " " that strings.Count counts).
BreakAlphabet == {69, 104, 32, 33, 160}

SeqsUpTo(alphabet, n) == UNION {[1..m -> alphabet] : m \in 0..n}

\* "THE QUICK BROWN FOX"
QuickBrownFox ==
    <<84, 72, 69, 32, 81, 85, 73, 67, 75, 32, 66, 82, 79, 87, 78, 32, 70, 79, 88>>

RecoverShifts == {-27, 0, 7, 33}

\* A break function returns the pair (bestPlaintext, bestShift).
Result(best) == [plaintext |-> best.plaintext, shift |-> best.shift]

Idle ==
    /\ recovered = <<>>
    /\ bf = InitialBest
    /\ fa = InitialBest
    /\ faPrev = InitialBest
    /\ freqOrder = <<>>
    /\ potentialShifts = <<>>

\* Cipher main, lines 41-51: the plaintext and the shift factor are read.
InitCipher ==
    /\ pc = "start"
    /\ plaintext \in SeqsUpTo(CipherAlphabet, MaxCipherLen)
    /\ shift \in -MaxShift..MaxShift
    /\ ciphertext = <<>>
    /\ Idle

\* Decipher main, lines 206-211: the ciphertext is read.
InitBreak ==
    /\ pc = "read"
    /\ plaintext = <<>>
    /\ shift = 0
    /\ ciphertext \in SeqsUpTo(LetterAlphabet, MaxLen) \cup SeqsUpTo(BreakAlphabet, MaxShortLen)
    /\ Idle

\* A plaintext is encoded by Cipher and its output handed to Decipher.
InitRecover ==
    /\ pc = "start"
    /\ plaintext \in SeqsUpTo(BreakAlphabet, MaxRecoverLen) \cup {QuickBrownFox}
    /\ shift \in RecoverShifts
    /\ ciphertext = <<>>
    /\ Idle

Init == InitCipher \/ InitBreak \/ InitRecover

-----------------------------------------------------------------------------
(* Operations.                                                             *)

\* Cipher main, line 54.
Encode ==
    /\ pc = "start"
    /\ ciphertext' = applyCipher(plaintext, shift)
    /\ pc' = "encoded"
    /\ UNCHANGED <<plaintext, shift, recovered, bf, fa, faPrev, freqOrder,
                   potentialShifts>>

\* decipherWithShift applied to the encoder's output with the same shift.
Decode ==
    /\ pc = "encoded"
    /\ recovered' = decipherWithShift(ciphertext, shift)
    /\ pc' = "decoded"
    /\ UNCHANGED <<plaintext, shift, ciphertext, bf, fa, faPrev, freqOrder,
                   potentialShifts>>

\* Decipher main, line 214: on the ciphertext read, or on the encoder's
\* output.
BruteForce ==
    /\ pc \in {"read", "encoded"}
    /\ bf' = breakCipherBruteForce(ciphertext)
    /\ pc' = IF pc = "read" THEN "brute" ELSE "cracked"
    /\ UNCHANGED <<plaintext, shift, ciphertext, recovered, fa, faPrev,
                   freqOrder, potentialShifts>>

\* Decipher main, line 215, and the same call once more on the same
\* ciphertext; faPrev keeps the result of the call before.
FrequencyAnalysis ==
    /\ pc \in {"brute", "freq"}
    /\ IF TooShort(ciphertext)
       THEN /\ fa' = breakCipherFrequencyAnalysis(ciphertext, <<>>)
            /\ freqOrder' = <<>>
            /\ potentialShifts' = AllShifts
       ELSE \E order \in getFrequencyOrder(calculateFrequencies(LettersOnly(ciphertext))) :
              /\ fa' = breakCipherFrequencyAnalysis(ciphertext, order)
              /\ freqOrder' = order
              /\ potentialShifts' = PotentialShifts(order)
    /\ faPrev' = fa
    /\ pc' = IF pc = "brute" THEN "freq" ELSE "again"
    /\ UNCHANGED <<plaintext, shift, ciphertext, recovered, bf>>

NextCipher == Encode \/ Decode
NextBreak == BruteForce \/ FrequencyAnalysis
NextRecover == Encode \/ BruteForce
Next == Encode \/ Decode \/ BruteForce \/ FrequencyAnalysis

Spec == Init /\ [][Next]_vars
SpecCipher == InitCipher /\ [][NextCipher]_vars
SpecBreak == InitBreak /\ [][NextBreak]_vars
SpecRecover == InitRecover /\ [][NextRecover]_vars

-----------------------------------------------------------------------------
(* Properties.                                                             *)

HasLetter(text) == \E i \in DOMAIN text : IsLetter(text[i])
LetterCount(text) == Cardinality({i \in DOMAIN text : IsLetter(text[i])})
Broken == pc \in {"brute", "freq", "again"}
Analysed == pc \in {"freq", "again"}

\* The scores of the decodings of text by the shifts k..25, in order.
RECURSIVE ScoresFrom(_, _)
ScoresFrom(text, k) ==
    IF k > 25 THEN <<>>
    ELSE <<scoreDecipheredText(decipherWithShift(text, k))>> \o ScoresFrom(text, k + 1)

\* The shifts whose decoding attains the maximum score.
BestShifts(text) ==
    LET scores == ScoresFrom(text, 0)
    IN  {k \in 0..25 : \A j \in 0..25 : scores[j + 1] <= scores[k + 1]}

Smallest(set) == CHOOSE k \in set : \A j \in set : k <= j

\* C1: round trip.  Decoding the encoder's output with the same shift gives
\* back the text, for every text and every integer shift.
C1_RoundTrip == pc = "decoded" => recovered = plaintext

C1_Witness ==
    /\ pc = "decoded"
    /\ shift < -26
    /\ HasLetter(plaintext)
    /\ ciphertext # plaintext
    /\ recovered = plaintext

\* C8: the encoder writes one character per character read: an uppercase
\* letter where it read an uppercase letter, a lowercase letter where it read
\* a lowercase letter, and the character itself where it read anything else.
C8_CasePreserved ==
    pc \in {"encoded", "decoded"} =>
        /\ Len(ciphertext) = Len(plaintext)
        /\ \A i \in DOMAIN plaintext :
              /\ IsUpperLetter(plaintext[i]) => IsUpperLetter(ciphertext[i])
              /\ IsLowerLetter(plaintext[i]) => IsLowerLetter(ciphertext[i])
              /\ ~IsLetter(plaintext[i]) => ciphertext[i] = plaintext[i]

C8_Witness ==
    /\ pc = "encoded"
    /\ \E i, j \in DOMAIN plaintext :
          /\ IsLowerLetter(plaintext[i])
          /\ IsLowerLetter(ciphertext[i])
          /\ ciphertext[i] # plaintext[i]
          /\ ~IsLetter(plaintext[j])
          /\ ciphertext[j] = plaintext[j]

\* C9: shift normalization.  The encoder gives the same output for shift,
\* shift + 26 and shift - 26, and the shift it applies is the representative
\* of shift in 0..25 (shift % 26 is the mathematical residue here).
C9_ShiftNormalized ==
    pc = "encoded" =>
        /\ ciphertext = applyCipher(plaintext, shift + 26)
        /\ ciphertext = applyCipher(plaintext, shift - 26)
        /\ ciphertext = [i \in DOMAIN plaintext |-> ShiftRune(plaintext[i], shift % 26)]
        /\ \A i \in DOMAIN plaintext :
              IsUpperLetter(plaintext[i]) =>
                  (ciphertext[i] - plaintext[i]) % 26 = shift % 26

C9_Witness ==
    /\ pc = "encoded"
    /\ shift < 0
    /\ HasLetter(plaintext)
    /\ ciphertext # plaintext
    /\ ciphertext = applyCipher(plaintext, shift + 26)

\* C4: brute force returns the decoding by the smallest shift whose score is
\* the maximum over the 26 shifts.
C4_FirstMaximumWins ==
    pc = "brute" =>
        LET best == Smallest(BestShifts(ciphertext))
        IN  Result(bf) = [plaintext |-> decipherWithShift(ciphertext, best), shift |-> best]

C4_Witness ==
    /\ pc = "brute"
    /\ Cardinality(BestShifts(ciphertext)) \in 2..25
    /\ bf.shift = Smallest(BestShifts(ciphertext))
    /\ bf.shift > 0
    /\ scoreDecipheredText(bf.plaintext) > 0

\* The text scores strictly higher than each of its other 25 rotations.
StrictlyBest(text) ==
    \A k \in 1..25 : scoreDecipheredText(applyCipher(text, k)) < scoreDecipheredText(text)

\* C5: brute force on the encoding of a plaintext returns a text that scores
\* at least as high as the plaintext; a plaintext that scores strictly higher
\* than its other 25 rotations is returned itself, with the shift reduced
\* into 0..25; THE QUICK BROWN FOX encoded with 7 comes back with shift 7.
C5_RecoversPlaintext ==
    pc = "cracked" =>
        /\ scoreDecipheredText(bf.plaintext) >= scoreDecipheredText(plaintext)
        /\ StrictlyBest(plaintext) =>
              Result(bf) = [plaintext |-> plaintext, shift |-> shift % 26]
        /\ (plaintext = QuickBrownFox /\ shift = 7) =>
              Result(bf) = [plaintext |-> QuickBrownFox, shift |-> 7]

C5_Witness ==
    /\ pc = "cracked"
    /\ plaintext = QuickBrownFox
    /\ shift = 7
    /\ ciphertext # plaintext
    /\ StrictlyBest(plaintext)
    /\ Result(bf) = [plaintext |-> QuickBrownFox, shift |-> 7]

\* C6: on a ciphertext with fewer than 5 letters, frequency analysis returns
\* the pair brute force returns.
C6_FallbackSameResult ==
    (Analysed /\ LetterCount(ciphertext) < 5) => Result(fa) = Result(bf)

C6_Witness ==
    /\ pc = "freq"
    /\ LetterCount(ciphertext) \in 1..4
    /\ Result(fa) = Result(bf)
    /\ fa.shift > 0

\* C10: on a ciphertext with at least 5 letters the candidate list is a
\* permutation of 0..25 that starts with the preferred shift: the most
\* frequent letter minus 'E', reduced into 0..25.
C10_CandidatesPermutation ==
    (Analysed /\ LetterCount(ciphertext) >= 5) =>
        /\ Len(potentialShifts) = 26
        /\ Len(freqOrder) > 0
        /\ LET upper == ToUpper(ciphertext)
           IN  \A r \in 65..90 : Count(upper, r) <= Count(upper, freqOrder[1])
        /\ potentialShifts[1] = (freqOrder[1] - 69) % 26
        /\ \A k \in 0..25 :
              Cardinality({i \in DOMAIN potentialShifts : potentialShifts[i] = k}) = 1

C10_Witness ==
    /\ pc = "freq"
    /\ LetterCount(ciphertext) >= 5
    /\ freqOrder[1] = 69
    /\ potentialShifts[1] = 0
    /\ potentialShifts[2] = 1
    /\ Len(potentialShifts) = 26

\* C2 as stated: on a ciphertext with at least 5 letters, frequency analysis
\* and brute force return the same shift and the same plaintext.
C2_SameShift ==
    (Analysed /\ LetterCount(ciphertext) >= 5) => Result(fa) = Result(bf)

\* C2, amended: on a ciphertext with at least 5 letters, frequency analysis
\* returns the decoding by a shift of maximum score, so its plaintext scores
\* what the plaintext of brute force scores; the two pairs are equal when a
\* single shift attains the maximum.
C2_SameMaximumScore ==
    (Analysed /\ LetterCount(ciphertext) >= 5) =>
        LET best == BestShifts(ciphertext)
        IN  /\ fa.shift \in best
            /\ fa.plaintext = decipherWithShift(ciphertext, fa.shift)
            /\ scoreDecipheredText(fa.plaintext) = scoreDecipheredText(bf.plaintext)
            /\ Cardinality(best) = 1 => Result(fa) = Result(bf)

C2_Witness ==
    /\ pc = "freq"
    /\ LetterCount(ciphertext) >= 5
    /\ Cardinality(BestShifts(ciphertext)) = 1
    /\ potentialShifts[1] # fa.shift
    /\ Result(fa) = Result(bf)
    /\ scoreDecipheredText(fa.plaintext) > scoreDecipheredText(decipherWithShift(ciphertext, potentialShifts[1]))

\* C3: two runs of frequency analysis on the same ciphertext return the same
\* pair, and getFrequencyOrder puts the same letter first in both.
C3_Deterministic ==
    pc = "again" => Result(fa) = Result(faPrev)

\* C7: every break ends with a shift in 0..25; scoring the empty text
\* divides nothing by zero and scores 0, and brute force on the empty text
\* returns the empty plaintext with shift 0.
C7_NoZeroDivision ==
    Broken =>
        /\ bf.shift \in 0..25
        /\ Analysed => fa.shift \in 0..25
        /\ ciphertext = <<>> =>
              /\ ~bf.zeroDiv
              /\ scoreDecipheredText(bf.plaintext) = 0
              /\ Result(bf) = [plaintext |-> <<>>, shift |-> 0]

====
